---- MODULE Spec2Model ----
(***************************************************************************)
(* xcquinox patch of pyscfad: rks.get_veff (network fallback on a NaN      *)
(* exchange-correlation energy) and numint.nr_rks (extended / minimal      *)
(* eval_xc dispatch inside the LDA, GGA and MGGA grid-block loops).        *)
(*                                                                         *)
(* Spec     : the SCF driver calling get_veff repeatedly.                  *)
(* SpecRks  : one call of nr_rks over a grid cut into blocks.              *)
(***************************************************************************)
EXTENDS Integers, Sequences, FiniteSets, TLC

\* ------------------------------------------------------------- bounds
\* number of basis functions, dm.shape[-1]
NAO == 2
\* largest leading dimension of a stacked (ndim = 3) density matrix
MaxStack == 2
\* get_veff calls (SCF iterations) followed
MaxCalls == 2
\* grid points of the integration grid
NPts == 3
\* largest number of grid points block_loop hands out at once
MaxBlk == 2
\* largest number of density matrices in one nr_rks call (nset)
MaxSet == 2

\* ------------------------------------------------- floating point values
\* IEEE numbers as far as the code can tell them apart: finite, +-inf, nan.
F(v) == [k |-> "fin", v |-> v]
NaN == [k |-> "nan", v |-> 0]
PosInf == [k |-> "inf", v |-> 1]
NegInf == [k |-> "inf", v |-> -1]

isnan(x) == x.k = "nan"
isfinite(x) == x.k = "fin"

Sign(v) == IF v > 0 THEN 1 ELSE IF v < 0 THEN -1 ELSE 0

\* IEEE product: nan is absorbing, inf * 0 is nan.
FMul(a, b) ==
    IF isnan(a) \/ isnan(b) THEN NaN
    ELSE IF a.k = "fin" /\ b.k = "fin" THEN F(a.v * b.v)
    ELSE IF Sign(a.v) * Sign(b.v) = 0 THEN NaN
    ELSE [k |-> "inf", v |-> Sign(a.v) * Sign(b.v)]

\* IEEE sum: nan is absorbing, inf + (-inf) is nan.
FAdd(a, b) ==
    IF isnan(a) \/ isnan(b) THEN NaN
    ELSE IF a.k = "fin" /\ b.k = "fin" THEN F(a.v + b.v)
    ELSE IF a.k = "inf" /\ b.k = "inf"
         THEN (IF a.v = b.v THEN a ELSE NaN)
    ELSE IF a.k = "inf" THEN a ELSE b

\* ---------------------------------------------------------------- matrices
Idx == 1..NAO
Zero == [ij \in Idx \X Idx |-> F(0)]

\* Variant of line 19: np.ones for np.eye.
ones == [ij \in Idx \X Idx |-> F(1)]

\* np.eye(n)
eye == [ij \in Idx \X Idx |-> IF ij[1] = ij[2] THEN F(1) ELSE F(0)]

\* M.T
T(M) == [ij \in Idx \X Idx |-> M[<<ij[2], ij[1]>>]]

RECURSIVE FSum(_, _)
\* sum of f[1] .. f[n], left to right
FSum(f, n) == IF n = 0 THEN F(0) ELSE FAdd(FSum(f, n - 1), f[n])

\* np.matmul(A, B)
matmul(A, B) ==
    [ij \in Idx \X Idx |->
        FSum([k \in Idx |-> FMul(A[<<ij[1], k>>], B[<<k, ij[2]>>])], NAO)]

\* one slice x of np.einsum('ij,xjk,kl->xil', A, G, B)
einsum_slice(A, Gx, B) ==
    [il \in Idx \X Idx |->
        FSum([j \in Idx |->
                FSum([k \in Idx |->
                        FMul(FMul(A[<<il[1], j>>], Gx[<<j, k>>]), B[<<k, il[2]>>])],
                     NAO)],
             NAO)]

\* np.einsum('ij,xjk,kl->xil', A, G, B) on a stack G of matrices
einsum(A, G, B) == [x \in DOMAIN G |-> einsum_slice(A, G[x], B)]

IsSymmetric(M) == \A i \in Idx, j \in Idx : M[<<i, j>>] = M[<<j, i>>]

\* A tensor is [ndim, s]: s is the sequence of its 2-D slices (one slice
\* when ndim = 2).
Tensor(nd, slices) == [ndim |-> nd, s |-> slices]

\* ============================================================ rks.get_veff
VARIABLES
    pc,        \* position of the SCF driver / get_veff
    ncall,     \* get_veff calls completed
    verbose,   \* ks.network.verbose
    dm,        \* shape of the density matrix of the current call: [ndim, nx]
    n,         \* n of "n, vxc.exc, vxc.vxc = ni.nr_rks(...)"
    vxc,       \* the effective-potential object: [exc, vxc] are vxc.exc, vxc.vxc
    prim,      \* what ni.nr_rks returned in the current call: [n, exc, vxc]
    netCalls,  \* arguments of the jax.value_and_grad(ks.network_eval) calls made
    netOut,    \* what those calls returned: [excG, vxcG] each
    out,       \* lines printed by the current call
    hist       \* the previous call: <<[exc, vxc, n, fallback]>>

veffVars == <<pc, ncall, verbose, dm, n, vxc, prim, netCalls, netOut, out, hist>>

\* ============================================================ numint.nr_rks
VARIABLES
    rpc,        \* position inside nr_rks
    xc_code,    \* the functional identifier
    nset,       \* number of density matrices
    dms,        \* the density matrices: one coefficient each (one basis function)
    blk,        \* blocks handed out by block_loop so far
    ends,       \* ends[k]: last grid point of block k
    idm,        \* density-set index inside the current block (from 1)
    rho,        \* make_rho(idm, ao, mask, xctype) of the current block
    exc_blk,    \* exc of "exc, vxc = ni.eval_xc(...)[:2]"
    vxc_blk,    \* vxc of "exc, vxc = ni.eval_xc(...)[:2]"
    nelec,      \* accumulator, per density set
    excsum,     \* accumulator, per density set
    printed,    \* lines printed for the current (block, idm)
    extCalls,   \* arguments of the extended eval_xc calls, current (block, idm)
    minCalls,   \* arguments of the minimal eval_xc calls, current (block, idm)
    tryOutcome, \* how the try body ended for the current (block, idm)
    minOutcome, \* how the except body ended for the current (block, idm)
    res,        \* [kind, r]: the call that returned last and its whole result
    ndone,      \* per density set: blocks whose contribution was accumulated
    retExc      \* per density set: sum over the eval_xc calls that returned of
                \* dot(grid density * grid weight, returned exc)

rksVars == <<rpc, xc_code, nset, dms, blk, ends, idm, rho, exc_blk, vxc_blk,
             nelec, excsum, printed, extCalls, minCalls, tryOutcome,
             minOutcome, res, ndone, retExc>>

vars == <<veffVars, rksVars>>

\* density matrices the driver passes: one matrix, or a stack of nx matrices
DMs == {[ndim |-> 2, nx |-> 1], [ndim |-> 3, nx |-> MaxStack]}

\* a tensor of dm's shape whose slices are all M
Fill(d, M) == Tensor(d.ndim, [x \in 1..d.nx |-> M])

\* ----- what ni.nr_rks can hand back
PrimExc == {NaN, PosInf, NegInf, F(-1)}
Large == [ij \in Idx \X Idx |-> F(1000)]
NanEntry == [ij \in Idx \X Idx |-> IF ij = <<1, 1>> THEN NaN ELSE F(0)]
\* (n, vxc) that can come with any exc: a large finite potential, or one
\* holding a nan
PrimNVxc == {<<F(2), Large>>, <<F(10), NanEntry>>}

\* ----- what the network's value_and_grad can hand back
GradVals == {F(1), NaN, PosInf}
Unit(i, j, v) == [ij \in Idx \X Idx |-> IF ij = <<i, j>> THEN v ELSE F(0)]
Sym(i, j, v) ==
    [ij \in Idx \X Idx |-> IF ij = <<i, j>> \/ ij = <<j, i>> THEN v ELSE F(0)]
\* raw 2-D gradients: zero, one entry set (not symmetric off the diagonal),
\* or a symmetric pair of entries set
NetMats ==
    {Zero} \cup {Unit(i, j, v) : i \in Idx, j \in Idx, v \in GradVals}
           \cup {Sym(i, j, v) : i \in Idx, j \in Idx, v \in GradVals}
\* the gradient has dm's shape; a stacked one is zero but for one slice
NetGrads(d) ==
    {Tensor(d.ndim, [x \in 1..d.nx |-> IF x = y THEN M ELSE Zero]) :
        y \in 1..d.nx, M \in NetMats}
NetExc == {F(-1), NaN}

NoTensor == Tensor(2, <<Zero>>)
NoPrim == [n |-> F(0), exc |-> F(0), vxc |-> NoTensor]

\* Variants of the line-15 test: inverted; on any non-finite value; on the
\* potential as well as the energy.
NeedsNetworkInverted(exc) == ~isnan(exc)
NeedsNetworkNonFinite(exc) == ~isfinite(exc)
NeedsNetworkOrVxc(exc) ==
    isnan(exc) \/ \E x \in DOMAIN vxc.vxc.s, ij \in Idx \X Idx : isnan(vxc.vxc.s[x][ij])

\* line 15: if np.isnan(vxc.exc)
NeedsNetwork(exc) == isnan(exc)

\* Variant of line 17: the value and the gradient from two network calls.
value_then_grad(d) == <<d, d>>

\* line 17: one jax.value_and_grad(ks.network_eval)(dm) call
value_and_grad(d) == <<d>>

\* lines 19-25: L = np.eye(dm.shape[-1]); einsum for ndim > 2, else matmul
Symmetrize(d, vxcG) ==
    LET L == eye
    IN  IF vxcG.ndim > 2
        THEN Tensor(vxcG.ndim, einsum(L, vxcG.s, T(L)))
        ELSE Tensor(vxcG.ndim, <<matmul(L, matmul(vxcG.s[1], T(L)))>>)

\* Variant of lines 26-27: the potential is stored, the energy is not.
StoreFallbackVxcOnly(obj, excG, vxcG) == [obj EXCEPT !.vxc = vxcG]

\* lines 26-27: vxc.vxc = vxcG; vxc.exc = excG
StoreFallback(obj, excG, vxcG) == [obj EXCEPT !.vxc = vxcG, !.exc = excG]

\* lines 16, 21: what the fallback prints
FallbackPrints(v) ==
    <<"RKSAnalyzer.get_veff; nans in exc, trying with network">>
        \o (IF v THEN <<"restoring vxc symmetry">> ELSE <<>>)

\* line 13: the driver calls get_veff(dm); ni.nr_rks returns (n, exc, vxc)
Primary ==
    /\ pc = "idle"
    /\ ncall < MaxCalls
    /\ \E d \in DMs, pe \in PrimExc, nv \in PrimNVxc :
        /\ dm' = d
        /\ n' = nv[1]
        /\ vxc' = [exc |-> pe, vxc |-> Fill(d, nv[2])]
        /\ prim' = [n |-> nv[1], exc |-> pe, vxc |-> Fill(d, nv[2])]
    /\ pc' = "primary"
    /\ netCalls' = <<>>
    /\ netOut' = <<>>
    /\ out' = <<>>
    /\ UNCHANGED <<ncall, verbose, hist>>
    /\ UNCHANGED rksVars

\* line 13: ni.nr_rks raises (a fatal eval_xc failure); nothing is assigned
PrimaryRaises ==
    /\ pc = "idle"
    /\ ncall < MaxCalls
    /\ \E d \in DMs : dm' = d
    /\ pc' = "raised"
    /\ prim' = NoPrim
    /\ netCalls' = <<>>
    /\ netOut' = <<>>
    /\ out' = <<>>
    /\ UNCHANGED <<ncall, verbose, n, vxc, hist>>
    /\ UNCHANGED rksVars

\* line 15 false: the if body is skipped
Accept ==
    /\ pc = "primary"
    /\ ~NeedsNetwork(vxc.exc)
    /\ pc' = "xc_done"
    /\ UNCHANGED <<ncall, verbose, dm, n, vxc, prim, netCalls, netOut, out, hist>>
    /\ UNCHANGED rksVars

\* lines 15-27 with the network returning
Fallback ==
    /\ pc = "primary"
    /\ NeedsNetwork(vxc.exc)
    /\ \E excG \in NetExc, vxcG \in NetGrads(dm) :
        /\ netOut' = [i \in 1..Len(value_and_grad(dm)) |->
                        [excG |-> excG, vxcG |-> vxcG]]
        /\ vxc' = StoreFallback(vxc, excG, Symmetrize(dm, vxcG))
    /\ netCalls' = netCalls \o value_and_grad(dm)
    /\ out' = out \o FallbackPrints(verbose)
    /\ pc' = "xc_done"
    /\ UNCHANGED <<ncall, verbose, dm, n, prim, hist>>
    /\ UNCHANGED rksVars

\* lines 15-17 with ks.network_eval raising inside value_and_grad
NetworkRaises ==
    /\ pc = "primary"
    /\ NeedsNetwork(vxc.exc)
    /\ netCalls' = netCalls \o value_and_grad(dm)
    /\ out' = out \o FallbackPrints(FALSE)
    /\ pc' = "raised"
    /\ UNCHANGED <<ncall, verbose, dm, n, vxc, prim, netOut, hist>>
    /\ UNCHANGED rksVars

\* get_veff hands vxc back to the SCF driver, which iterates
Return ==
    /\ pc = "xc_done"
    /\ hist' = <<[exc |-> prim.exc, vxc |-> prim.vxc, n |-> prim.n,
                  fallback |-> netCalls # <<>>]>>
    /\ ncall' = ncall + 1
    /\ pc' = "idle"
    /\ UNCHANGED <<verbose, dm, n, vxc, prim, netCalls, netOut, out>>
    /\ UNCHANGED rksVars

\* ============================================================ numint.nr_rks
\* ----- the grid and the orbitals on it (one basis function)
Weight(p) == p
AoVal(p) == 1 + (p % 2)
Coord(p) == p

XcCodes == {"LDA,VWN", "PBE", "SCAN"}
\* xctype = ni._xc_type(xc_code): which of the three branches runs
xc_type(code) ==
    IF code = "LDA,VWN" THEN "LDA" ELSE IF code = "PBE" THEN "GGA" ELSE "MGGA"

\* the density matrices of a call with k sets: all the same, or all different
DmSets(k) == {[i \in 1..k |-> 1], [i \in 1..k |-> i]}

RECURSIVE SeqSum(_)
SeqSum(q) == IF q = <<>> THEN 0 ELSE Head(q) + SeqSum(Tail(q))

\* np.dot(a, b)
dot(a, b) == SeqSum([q \in 1..Len(a) |-> a[q] * b[q]])

\* grid points of block k: Start(k) + 1 .. ends[k]
Start(k) == IF k <= 1 THEN 0 ELSE ends[k - 1]
BlkLen(k) == ends[k] - Start(k)

\* what block_loop yields for block k
weight_of(k) == [q \in 1..BlkLen(k) |-> Weight(Start(k) + q)]
ao_of(k) == [q \in 1..BlkLen(k) |-> AoVal(Start(k) + q)]
coords_of(k) == [q \in 1..BlkLen(k) |-> Coord(Start(k) + q)]

\* rho = make_rho(idm, ao, mask, xctype): [xctype, v], v the density values
\* (rho for LDA, rho[0] otherwise)
make_rho(i, ao, xctype) ==
    [xctype |-> xctype, v |-> [q \in 1..Len(ao) |-> dms[i] * ao[q] * ao[q]]]

\* the density * weight of density set i on the grid points lo+1 .. hi
GridDen(i, lo, hi) ==
    [q \in 1..(hi - lo) |->
        dms[i] * AoVal(lo + q) * AoVal(lo + q) * Weight(lo + q)]

\* lines 46-48, 66-68, 86-88: the arguments of the extended call
ExtendedArgs(code, r, ao, w, c) ==
    [xc_code |-> code, rho |-> r, ao |-> ao, weight |-> w, coords |-> c,
     spin |-> 0, deriv |-> 1]

\* lines 50-52, 70-72, 90-92: the arguments of the minimal call
MinimalArgs(code, r) == [xc_code |-> code, rho |-> r, spin |-> 0, deriv |-> 1]

\* exc vectors an eval_xc call can return on len points: flat, or falling
ExcVecs(len) == {[q \in 1..len |-> -1], [q \in 1..len |-> -1 - q]}

\* what an eval_xc call that returns can return on len points:
\* (exc, vxc) or (exc, vxc, fxc, kxc), vxc = (vrho, vsigma, vlapl, vtau)
EvalResults(len) ==
    {<<e, <<7, 0, 0, 0>>>> : e \in ExcVecs(len)}
        \cup {<<e, <<8, 0, 0, 0>>, <<>>, <<>>>> : e \in ExcVecs(len)}

\* "[:2]"
Take2(r) == SubSeq(r, 1, 2)

\* line 45, 65, 85: the print of the try body
BlockPrint(xctype) == <<xctype \o " ni.block_loop; input ao.shape, weight.shape, coords.shape">>

\* Variants of the try statement: "except: pass", and a minimal call that
\* runs whether or not the try body failed.
AfterTryPass(ok) == "unpacked"
AfterTryAlways(ok) == "except"

\* lines 43-52: where control goes when the try body ends
AfterTry(ok) == IF ok THEN "unpacked" ELSE "except"

\* Variant of the except body: its failure is swallowed too.
AfterExceptPass(ok) == "unpacked"

\* lines 49-52: where control goes when the except body ends
AfterExcept(ok) == IF ok THEN "unpacked" ELSE "fatal"

\* Variant of line 95: the block's first weight for every point of the block.
den_of_first_weight(r, w) == [q \in 1..Len(w) |-> r.v[q] * w[1]]

\* line 95: den = rho[0] * weight
den_of(r, w) == [q \in 1..Len(w) |-> r.v[q] * w[q]]

\* Variant of line 99: "=" for "+=".
nelec_set(acc, i, den) == [acc EXCEPT ![i] = SeqSum(den)]

\* line 99: nelec[idm] += stop_grad(den).sum()
nelec_add(acc, i, den) == [acc EXCEPT ![i] = @ + SeqSum(den)]

\* Variant of line 100: den summed, times the first exc, for the dot product.
excsum_add_first(acc, i, den, e) == [acc EXCEPT ![i] = @ + SeqSum(den) * e[1]]

\* line 100: excsum[idm] += np.dot(den, exc)
excsum_add(acc, i, den, e) == [acc EXCEPT ![i] = @ + dot(den, e)]

NoRho == [xctype |-> "", v |-> <<>>]
NoRes == [kind |-> "", r |-> <<>>]

\* for ao, mask, weight, coords in ni.block_loop(...): the next block
NextBlock ==
    /\ rpc = "loop"
    /\ blk = Len(ends)
    /\ Start(blk + 1) < NPts
    /\ \E size \in 1..MaxBlk :
        /\ Start(blk + 1) + size <= NPts
        /\ ends' = Append(ends, Start(blk + 1) + size)
    /\ blk' = blk + 1
    /\ idm' = 1
    /\ rpc' = "try"
    /\ UNCHANGED <<xc_code, nset, dms, rho, exc_blk, vxc_blk, nelec, excsum,
                   printed, extCalls, minCalls, tryOutcome, minOutcome, res,
                   ndone, retExc>>
    /\ UNCHANGED veffVars

\* lines 37, 43-48: make_rho, print, the extended call returns, [:2], unpack
TryExtendedReturns ==
    /\ rpc = "try"
    /\ LET r0 == make_rho(idm, ao_of(blk), xc_type(xc_code))
       IN /\ rho' = r0
          /\ extCalls' = <<ExtendedArgs(xc_code, r0, ao_of(blk), weight_of(blk),
                                        coords_of(blk))>>
    /\ printed' = BlockPrint(xc_type(xc_code))
    /\ minCalls' = <<>>
    /\ minOutcome' = "none"
    /\ tryOutcome' = "returned"
    /\ \E r \in EvalResults(BlkLen(blk)) :
        /\ res' = [kind |-> "extended", r |-> r]
        /\ exc_blk' = Take2(r)[1]
        /\ vxc_blk' = Take2(r)[2]
        /\ retExc' = [retExc EXCEPT
                        ![idm] = @ + dot(GridDen(idm, Start(blk), ends[blk]), r[1])]
    /\ rpc' = AfterTry(TRUE)
    /\ UNCHANGED <<xc_code, nset, dms, blk, ends, idm, nelec, excsum, ndone>>
    /\ UNCHANGED veffVars

\* lines 37, 43-48: make_rho, print, the extended call raises
TryExtendedRaises ==
    /\ rpc = "try"
    /\ LET r0 == make_rho(idm, ao_of(blk), xc_type(xc_code))
       IN /\ rho' = r0
          /\ extCalls' = <<ExtendedArgs(xc_code, r0, ao_of(blk), weight_of(blk),
                                        coords_of(blk))>>
    /\ printed' = BlockPrint(xc_type(xc_code))
    /\ minCalls' = <<>>
    /\ minOutcome' = "none"
    /\ tryOutcome' = "extended_raised"
    /\ rpc' = AfterTry(FALSE)
    /\ UNCHANGED <<xc_code, nset, dms, blk, ends, idm, exc_blk, vxc_blk, nelec,
                   excsum, res, ndone, retExc>>
    /\ UNCHANGED veffVars

\* lines 37, 43-45: make_rho, then the print itself raises (stdout closed):
\* the bare except catches that too, and no extended call was made
TryPrintRaises ==
    /\ rpc = "try"
    /\ rho' = make_rho(idm, ao_of(blk), xc_type(xc_code))
    /\ extCalls' = <<>>
    /\ printed' = <<>>
    /\ minCalls' = <<>>
    /\ minOutcome' = "none"
    /\ tryOutcome' = "print_raised"
    /\ rpc' = AfterTry(FALSE)
    /\ UNCHANGED <<xc_code, nset, dms, blk, ends, idm, exc_blk, vxc_blk, nelec,
                   excsum, res, ndone, retExc>>
    /\ UNCHANGED veffVars

\* lines 49-52: the minimal call returns, [:2], unpack
TryMinimalReturns ==
    /\ rpc = "except"
    /\ minCalls' = Append(minCalls, MinimalArgs(xc_code, rho))
    /\ minOutcome' = "returned"
    /\ \E r \in EvalResults(BlkLen(blk)) :
        /\ res' = [kind |-> "minimal", r |-> r]
        /\ exc_blk' = Take2(r)[1]
        /\ vxc_blk' = Take2(r)[2]
        /\ retExc' = [retExc EXCEPT
                        ![idm] = @ + dot(GridDen(idm, Start(blk), ends[blk]), r[1])]
    /\ rpc' = AfterExcept(TRUE)
    /\ UNCHANGED <<xc_code, nset, dms, blk, ends, idm, rho, nelec, excsum,
                   printed, extCalls, tryOutcome, ndone>>
    /\ UNCHANGED veffVars

\* lines 49-52: the minimal call raises; nothing catches it
TryMinimalRaises ==
    /\ rpc = "except"
    /\ minCalls' = Append(minCalls, MinimalArgs(xc_code, rho))
    /\ minOutcome' = "raised"
    /\ rpc' = AfterExcept(FALSE)
    /\ UNCHANGED <<xc_code, nset, dms, blk, ends, idm, rho, exc_blk, vxc_blk,
                   nelec, excsum, printed, extCalls, tryOutcome, res, ndone,
                   retExc>>
    /\ UNCHANGED veffVars

\* lines 53, 73, 94-100: den, nelec, excsum; then the next idm or block
Accumulate ==
    /\ rpc = "unpacked"
    /\ LET den == den_of(rho, weight_of(blk))
       IN /\ nelec' = nelec_add(nelec, idm, den)
          /\ excsum' = excsum_add(excsum, idm, den, exc_blk)
    /\ ndone' = [ndone EXCEPT ![idm] = @ + 1]
    /\ IF idm < nset
       THEN idm' = idm + 1 /\ rpc' = "try"
       ELSE idm' = idm /\ rpc' = "loop"
    /\ UNCHANGED <<xc_code, nset, dms, blk, ends, rho, exc_blk, vxc_blk,
                   printed, extCalls, minCalls, tryOutcome, minOutcome, res,
                   retExc>>
    /\ UNCHANGED veffVars

\* block_loop is exhausted: nr_rks returns nelec, excsum, vmat
Finish ==
    /\ rpc = "loop"
    /\ Start(blk + 1) = NPts
    /\ rpc' = "done"
    /\ UNCHANGED <<xc_code, nset, dms, blk, ends, idm, rho, exc_blk, vxc_blk,
                   nelec, excsum, printed, extCalls, minCalls, tryOutcome,
                   minOutcome, res, ndone, retExc>>
    /\ UNCHANGED veffVars

NextRks ==
    \/ NextBlock
    \/ TryExtendedReturns
    \/ TryExtendedRaises
    \/ TryPrintRaises
    \/ TryMinimalReturns
    \/ TryMinimalRaises
    \/ Accumulate
    \/ Finish

\* ============================================================ specifications
\* The SCF driver before its first get_veff call; nr_rks is not running.
Init ==
    /\ pc = "idle"
    /\ ncall = 0
    /\ verbose \in BOOLEAN
    /\ dm = [ndim |-> 2, nx |-> 1]
    /\ n = F(0)
    /\ vxc = [exc |-> F(0), vxc |-> NoTensor]
    /\ prim = NoPrim
    /\ netCalls = <<>>
    /\ netOut = <<>>
    /\ out = <<>>
    /\ hist = <<>>
    /\ rpc = "off"
    /\ xc_code = "PBE"
    /\ nset = 1
    /\ dms = <<1>>
    /\ blk = 0
    /\ ends = <<>>
    /\ idm = 1
    /\ rho = NoRho
    /\ exc_blk = <<>>
    /\ vxc_blk = <<>>
    /\ nelec = <<0>>
    /\ excsum = <<0>>
    /\ printed = <<>>
    /\ extCalls = <<>>
    /\ minCalls = <<>>
    /\ tryOutcome = "none"
    /\ minOutcome = "none"
    /\ res = NoRes
    /\ ndone = <<0>>
    /\ retExc = <<0>>

Next == Primary \/ PrimaryRaises \/ Accept \/ Fallback \/ NetworkRaises \/ Return

Spec == Init /\ [][Next]_vars

\* nr_rks entered from line 13 of get_veff, before its first block.
InitRks ==
    /\ pc = "nr_rks"
    /\ ncall = 0
    /\ verbose = FALSE
    /\ dm = [ndim |-> 2, nx |-> 1]
    /\ n = F(0)
    /\ vxc = [exc |-> F(0), vxc |-> NoTensor]
    /\ prim = NoPrim
    /\ netCalls = <<>>
    /\ netOut = <<>>
    /\ out = <<>>
    /\ hist = <<>>
    /\ rpc = "loop"
    /\ xc_code \in XcCodes
    /\ nset \in 1..MaxSet
    /\ dms \in DmSets(nset)
    /\ blk = 0
    /\ ends = <<>>
    /\ idm = 1
    /\ rho = NoRho
    /\ exc_blk = <<>>
    /\ vxc_blk = <<>>
    /\ nelec = [i \in 1..nset |-> 0]
    /\ excsum = [i \in 1..nset |-> 0]
    /\ printed = <<>>
    /\ extCalls = <<>>
    /\ minCalls = <<>>
    /\ tryOutcome = "none"
    /\ minOutcome = "none"
    /\ res = NoRes
    /\ ndone = [i \in 1..nset |-> 0]
    /\ retExc = [i \in 1..nset |-> 0]

SpecRks == InitRks /\ [][NextRks]_vars

\* ============================================================ properties
\* ----- get_veff (Spec)

\* C1: when ni.nr_rks returned a finite exc, the network was not called and
\* vxc.exc, vxc.vxc are exactly what ni.nr_rks returned.
C1_FinitePrimaryKept ==
    (pc \in {"xc_done", "idle"} /\ isfinite(prim.exc)) =>
        /\ netCalls = <<>>
        /\ vxc.exc = prim.exc
        /\ vxc.vxc = prim.vxc

C1_Witness ==
    /\ pc = "xc_done"
    /\ prim.exc = F(-1)
    /\ prim.vxc = Fill([ndim |-> 3, nx |-> MaxStack], Large)
    /\ vxc.vxc = prim.vxc

\* C2: when ni.nr_rks returned a nan exc, exactly one value_and_grad call was
\* made, on the dm of this get_veff call, by the time get_veff goes on (or
\* raises out of the network call).
C2_NanOneNetworkCall ==
    (pc \in {"xc_done", "raised", "idle"} /\ isnan(prim.exc)) => netCalls = <<dm>>

C2_Witness ==
    /\ pc = "xc_done"
    /\ isnan(prim.exc)
    /\ netCalls = <<dm>>
    /\ dm.ndim = 3

\* C3: after the fallback, every slice of vxc.vxc is symmetric.
C3_FallbackSymmetric ==
    (pc = "xc_done" /\ netCalls # <<>>) =>
        \A x \in DOMAIN vxc.vxc.s : IsSymmetric(vxc.vxc.s[x])

\* C7 as claimed: a non-finite primary exc (nan or an infinity) is rejected
\* and the fallback runs; only a finite one is accepted.
C7_NonFiniteRejected ==
    pc = "xc_done" => (netCalls # <<>> <=> ~isfinite(prim.exc))

\* C7 as amended: a nan primary exc is rejected and the fallback runs; any
\* other exc, +inf and -inf included, is accepted.
C7_NanRejected ==
    pc \in {"xc_done", "raised"} => (netCalls # <<>> <=> isnan(prim.exc))

C7_Witness ==
    /\ pc = "xc_done"
    /\ prim.exc = PosInf
    /\ netCalls = <<>>
    /\ vxc.exc = PosInf

\* C8: a call whose primary exc equals that of the previous call takes the
\* same branch as the previous call, whatever the two vxc and n are.
C8_BranchByExcAlone ==
    (pc = "xc_done" /\ hist # <<>> /\ hist[1].exc = prim.exc) =>
        hist[1].fallback = (netCalls # <<>>)

C8_Witness ==
    /\ pc = "xc_done"
    /\ hist # <<>>
    /\ hist[1].exc = prim.exc
    /\ hist[1].vxc.s[1] = Large
    /\ prim.vxc.s[1] = NanEntry
    /\ hist[1].n # prim.n
    /\ netCalls = <<>>

\* ----- nr_rks (SpecRks)

\* C4: where the extended call raised, one minimal call was made with the
\* same xc_code and rho; if it returned, nr_rks did not fail there and exc,
\* vxc are the first two results of that call.
C4_ExtendedRaiseOneMinimal ==
    (tryOutcome = "extended_raised" /\ rpc # "except") =>
        /\ Len(minCalls) = 1
        /\ minCalls[1].xc_code = extCalls[1].xc_code
        /\ minCalls[1].rho = extCalls[1].rho
        /\ minOutcome = "returned" =>
            /\ rpc # "fatal"
            /\ res.kind = "minimal"
            /\ exc_blk = res.r[1]
            /\ vxc_blk = res.r[2]

C4_Witness ==
    /\ tryOutcome = "extended_raised"
    /\ minOutcome = "returned"
    /\ rpc = "unpacked"
    /\ xc_type(xc_code) = "LDA"
    /\ Len(res.r) = 4
    /\ exc_blk = res.r[1]

\* C5: where the extended call returned, no minimal call was made and exc,
\* vxc are the first two results of the extended call.
C5_ExtendedReturnNoMinimal ==
    tryOutcome = "returned" =>
        /\ minCalls = <<>>
        /\ rpc \notin {"except", "fatal"}
        /\ res.kind = "extended"
        /\ exc_blk = res.r[1]
        /\ vxc_blk = res.r[2]

C5_Witness ==
    /\ tryOutcome = "returned"
    /\ rpc = "unpacked"
    /\ xc_type(xc_code) = "GGA"
    /\ Len(res.r) = 4
    /\ Len(extCalls) = 1
    /\ vxc_blk = res.r[2]

\* C6: where the minimal call raised, nr_rks has failed there: at most two
\* eval_xc calls were made for this (block, idm), the block is not counted
\* as done for idm, and nelec[idm], excsum[idm] hold the earlier blocks only.
C6_MinimalFailureFatal ==
    minOutcome = "raised" =>
        /\ rpc = "fatal"
        /\ Len(extCalls) + Len(minCalls) <= 2
        /\ ndone[idm] = blk - 1
        /\ nelec[idm] = SeqSum(GridDen(idm, 0, Start(blk)))
        /\ excsum[idm] = retExc[idm]

C6_Witness ==
    /\ minOutcome = "raised"
    /\ tryOutcome = "extended_raised"
    /\ rpc = "fatal"
    /\ blk = 2
    /\ idm = 2
    /\ nelec[idm] > 0

\* blocks that are complete for density set i
BlocksDone(i) == IF rpc \in {"loop", "done"} \/ i < idm THEN blk ELSE blk - 1

\* C9: for every density set, nelec holds the sum of rho[0] * weight over
\* the grid points of exactly the blocks complete for it.
C9_NelecSumsBlocks ==
    \A i \in 1..nset :
        /\ ndone[i] = BlocksDone(i)
        /\ nelec[i] = SeqSum(GridDen(i, 0, Start(ndone[i] + 1)))

C9_Witness ==
    /\ rpc = "loop"
    /\ blk = 2
    /\ nset = 2
    /\ minOutcome = "returned"
    /\ nelec[2] = SeqSum(GridDen(2, 0, ends[2]))
    /\ nelec[2] > nelec[1]

\* C10: for every density set, excsum holds the sum over the eval_xc calls
\* that returned of dot(rho[0] * weight, exc), once the block is accumulated;
\* in particular when all blocks are.
C10_ExcsumSumsBlocks ==
    \A i \in 1..nset :
        /\ (rpc = "unpacked" /\ i = idm) \/ excsum[i] = retExc[i]
        /\ rpc = "done" => ndone[i] = blk /\ ends[blk] = NPts

C10_Witness ==
    /\ rpc = "done"
    /\ blk = 2
    /\ res.kind = "minimal"
    /\ tryOutcome = "extended_raised"
    /\ excsum[1] < 0
    /\ excsum[1] = retExc[1]

\* C11: when nr_rks returns, nelec of every density set is the sum of
\* rho[0] * weight over the whole grid, whatever block sizes block_loop
\* chose and whichever call path each block took.
C11_NelecPartitionFree ==
    rpc = "done" => \A i \in 1..nset : nelec[i] = SeqSum(GridDen(i, 0, NPts))

C11_Witness ==
    /\ rpc = "done"
    /\ nset = 2
    /\ ends = <<1, NPts>>
    /\ minOutcome = "returned"
    /\ nelec[2] = SeqSum(GridDen(2, 0, NPts))
    /\ nelec[2] > 0

\* C12: a minimal call is made only after an extended eval_xc call for the
\* same (block, idm) was made and raised; nothing else, the print before it
\* included, leads to the minimal call.
C12_MinimalOnlyAfterExtendedRaised ==
    minCalls # <<>> => (Len(extCalls) = 1 /\ tryOutcome = "extended_raised")

\* ----- get_veff (Spec), continued

AllFinite(M) == \A ij \in Idx \X Idx : isfinite(M[ij])

C14_ReturnedExcNotNan ==
    pc = "xc_done" => ~isnan(vxc.exc)

\* C15: when the XC step is done, vxc.exc and vxc.vxc are both what
\* ni.nr_rks returned (no network call made), or both what the network call
\* returned, the gradient transformed; when the network call raised, both
\* are still what ni.nr_rks returned.
C15_PairFromOneEvaluation ==
    /\ pc = "xc_done" =>
        \/ /\ netCalls = <<>>
           /\ vxc.exc = prim.exc
           /\ vxc.vxc = prim.vxc
        \/ /\ netCalls # <<>>
           /\ vxc.exc = netOut[1].excG
           /\ vxc.vxc = Symmetrize(dm, netOut[1].vxcG)
    /\ (pc = "raised" /\ netCalls # <<>>) =>
        /\ netOut = <<>>
        /\ vxc.exc = prim.exc
        /\ vxc.vxc = prim.vxc

C15_Witness ==
    /\ pc = "xc_done"
    /\ netCalls # <<>>
    /\ isnan(prim.exc)
    /\ vxc.exc = F(-1)
    /\ netOut[1].excG = F(-1)
    /\ vxc.vxc = Tensor(2, <<Sym(1, 2, F(1))>>)
    /\ prim.vxc = Tensor(2, <<Large>>)

====
